---- MODULE Spec2Model ----
(***************************************************************************)
(* Model of the Tanrenai training sidecar (server/sidecar/main.py) and of  *)
(* the training routine it runs on a background thread                     *)
(* (gpu/sidecar/train.py).                                                 *)
(*                                                                         *)
(* Every Python statement that reads or writes shared state (the globals   *)
(* _current_run, _lock, _runs and the files under output_dir) is one       *)
(* atomic step; the label of a program counter is the source line the      *)
(* thread executes next.  The trainer, the merger and the converter are    *)
(* opaque collaborators: what they do is a nondeterministic choice among   *)
(* the outcomes their interface allows (progress events, return, raise).   *)
(*                                                                         *)
(* Numbers: a loss is kept in tenths, a progress value in units of 1e-4    *)
(* (round(progress, 4) has four decimals), so 1.0 is 10000.  The duration  *)
(* fields of the metrics, readings of the wall clock, are left out.        *)
(*                                                                         *)
(* Inputs: every request names an output_dir of its own, so status.json    *)
(* and metrics.json are followed for the latest run only (nothing in the   *)
(* program reads them back).  What run_training raises is an Exception,    *)
(* the class of Python's errors, which "except Exception" catches.         *)
(***************************************************************************)
EXTENDS Integers, Sequences, FiniteSets, TLC

(* ---- bounds ----------------------------------------------------------- *)
NumReq == 2         \* POST /train requests issued during a behaviour
MaxSteps == 1       \* largest max_steps the trainer reports
LogSteps == 6       \* largest max_steps of the progress events of SpecOnLog

(* ---- values ----------------------------------------------------------- *)
Reqs == 1..NumReq
None == "None"                        \* Python's None
SuppliedIds == {"a"}                  \* run_id values a caller supplies
RunIdInputs == {None} \cup SuppliedIds
Losses == {8}                         \* 0.8, in tenths
LogPayloads == {[loss |-> 8]}         \* the logs dict of a progress event
SampleCounts == {3}                   \* len(dataset)
Exceptions ==
    { [cls |-> "KeyError", args |-> <<"messages">>],
      [cls |-> "RuntimeError", args |-> <<"CUDA out of memory">>] }
NoException == [cls |-> None, args |-> << >>]
NoResponse == [op |-> "none", status_code |-> 0]
NoState == [global_step |-> 0, max_steps |-> 0]
NoFile == [exists |-> FALSE]
Unlocked == << >>
Handler(p) == <<"handler", p>>        \* the thread serving request p
Job(p) == <<"job", p>>                \* the thread started by request p

VARIABLES
    _current_run,   \* main.py:18
    _lock,          \* main.py:19, Unlocked or the thread that holds it
    _runs,          \* main.py:20
    pc,             \* per request: the line start_training executes next
    req,            \* per request: the TrainRequest
    run_id,         \* per request: the local run_id of start_training
    response,       \* per request: what POST /train answered
    tpc,            \* per request: the line its _train thread executes next
    state,          \* per request: the trainer's state (global_step, max_steps)
    exc,            \* per request: the exception caught at main.py:80
    metrics,        \* per request: the value run_training returned
    status_file,    \* status.json of the latest run, with its output_dir
    metrics_file,   \* metrics.json in the output_dir of the latest run
    reply           \* the answer of the status, merge or convert request
                    \* served in the step just taken, NoResponse otherwise
                    \* (these handlers write no shared state, so one such
                    \* request at a time is followed)

vars == <<_current_run, _lock, _runs, pc, req, run_id, response, tpc, state,
          exc, metrics, status_file, metrics_file, reply>>

shared == <<_current_run, _lock, _runs>>
handlerVars == <<pc, req, run_id, response>>
jobVars == <<tpc, state, exc, metrics>>
fileVars == <<status_file, metrics_file>>

(* ---- helpers ---------------------------------------------------------- *)
\* d[k] = v on a Python dict
Put(d, k, v) == [x \in DOMAIN d \cup {k} |-> IF x = k THEN v ELSE d[x]]

\* truthiness of req.run_id in "req.run_id or ..."
Truthy(s) == s # None /\ s # ""

\* str(uuid.uuid4())[:12], a fresh identifier per call
Uuid(p) == "uuid-" \o ToString(p)

\* every request names an output_dir of its own, which does not exist yet
OutputDir(p) == "out-" \o ToString(p)

\* str(e)
Str(e) == IF e.cls = "KeyError" THEN "'" \o e.args[1] \o "'" ELSE e.args[1]

\* the share of the steps that remain instead of the share that is done
ProgressRemaining(global_step, max_steps) ==
    IF max_steps > 0
    THEN (2 * 10000 * (max_steps - global_step) + max_steps)
            \div (2 * max_steps)
    ELSE 0

\* a progress that is cut off after four decimals instead of rounded
ProgressTruncated(global_step, max_steps) ==
    IF max_steps > 0
    THEN (10000 * global_step) \div max_steps
    ELSE 0

\* round(state.global_step / state.max_steps, 4) if max_steps > 0 else 0
\* (no quotient is halfway between two 4-decimal values for max_steps < 32)
Progress(global_step, max_steps) ==
    IF max_steps > 0
    THEN (2 * 10000 * global_step + max_steps) \div (2 * max_steps)
    ELSE 0

\* logs.get("loss", 0)
GetLoss(logs) == IF "loss" \in DOMAIN logs THEN logs.loss ELSE 0

TrainingRecord == [status |-> "training", metrics |-> << >>]
DoneRecord(m) == [status |-> "done", metrics |-> m]
FailedRecord(e) == [status |-> "failed", error |-> Str(e)]

(* ---- initial state ---------------------------------------------------- *)
Init ==
    /\ _current_run = None
    /\ _lock = Unlocked
    /\ _runs = << >>
    /\ pc = [p \in Reqs |-> "idle"]
    /\ req = [p \in Reqs |-> [run_id |-> None, output_dir |-> None]]
    /\ run_id = [p \in Reqs |-> None]
    /\ response = [p \in Reqs |-> NoResponse]
    /\ tpc = [p \in Reqs |-> "none"]
    /\ state = [p \in Reqs |-> NoState]
    /\ exc = [p \in Reqs |-> NoException]
    /\ metrics = [p \in Reqs |-> << >>]
    /\ status_file = NoFile
    /\ metrics_file = NoFile
    /\ reply = NoResponse

(* ---- POST /train: start_training -------------------------------------- *)
\* a lock that excludes nobody
CanAcquireAlways == TRUE

\* _lock.acquire() succeeds when no thread holds the lock
CanAcquire == _lock = Unlocked

\* start_training(req) is called for request p and enters "with _lock:"; a
\* request that waits for the lock has changed nothing yet, so its arrival
\* and its acquiring the lock are one step; requests are numbered in the
\* order in which they get the lock
AcquireAdmission(p, rid) ==
    /\ pc[p] = "idle"
    /\ \A q \in Reqs : q < p => pc[q] # "idle"
    /\ CanAcquire
    /\ req' = [req EXCEPT ![p] = [run_id |-> rid, output_dir |-> OutputDir(p)]]
    /\ _lock' = Handler(p)
    /\ pc' = [pc EXCEPT ![p] = "L57"]
    /\ UNCHANGED <<_current_run, _runs, run_id, response, jobVars, fileVars>>
    /\ reply' = NoResponse

\* f"Training already in progress: {_current_run}"
ConflictDetail == "Training already in progress: " \o _current_run

\* a handler that creates the record of the request before it rejects it
RejectConflictRecorded(p) ==
    /\ pc[p] = "L57"
    /\ _current_run # None
    /\ response' = [response EXCEPT
                      ![p] = [op |-> "train", status_code |-> 409,
                              detail |-> "Training already in progress: "
                                            \o _current_run]]
    /\ _runs' = Put(_runs, IF Truthy(req[p].run_id) THEN req[p].run_id
                           ELSE "uuid-" \o ToString(p),
                    [status |-> "training", metrics |-> << >>])
    /\ _lock' = Unlocked
    /\ pc' = [pc EXCEPT ![p] = "rejected"]
    /\ UNCHANGED <<_current_run, req, run_id, jobVars, fileVars>>
    /\ reply' = NoResponse

\* if _current_run is not None: raise HTTPException(409, ...); leaves the with
RejectConflict(p) ==
    /\ pc[p] = "L57"
    /\ _current_run # None
    /\ response' = [response EXCEPT
                      ![p] = [op |-> "train", status_code |-> 409,
                              detail |-> ConflictDetail]]
    /\ _lock' = Unlocked
    /\ pc' = [pc EXCEPT ![p] = "rejected"]
    /\ UNCHANGED <<_current_run, _runs, req, run_id, jobVars, fileVars>>
    /\ reply' = NoResponse

\* run_id = req.run_id or str(uuid.uuid4())[:12]
NewRunId(p) == IF Truthy(req[p].run_id) THEN req[p].run_id ELSE Uuid(p)

\* if _current_run is not None: ... finds the slot free
PassCheck(p) ==
    /\ pc[p] = "L57"
    /\ _current_run = None
    /\ pc' = [pc EXCEPT ![p] = "L62"]
    /\ UNCHANGED <<shared, req, run_id, response, jobVars, fileVars>>
    /\ reply' = NoResponse

\* an admission whose critical section ends after line 63: the record is
\* created outside the lock
AdmitRunUnlocking(p) ==
    /\ pc[p] = "L62"
    /\ run_id' = [run_id EXCEPT ![p] = NewRunId(p)]
    /\ _current_run' = NewRunId(p)
    /\ _lock' = Unlocked
    /\ pc' = [pc EXCEPT ![p] = "L64"]
    /\ UNCHANGED <<_runs, req, response, jobVars, fileVars>>
    /\ reply' = NoResponse

\* run_id = ...; _current_run = run_id
AdmitRun(p) ==
    /\ pc[p] = "L62"
    /\ run_id' = [run_id EXCEPT ![p] = NewRunId(p)]
    /\ _current_run' = NewRunId(p)
    /\ pc' = [pc EXCEPT ![p] = "L64"]
    /\ UNCHANGED <<_lock, _runs, req, response, jobVars, fileVars>>
    /\ reply' = NoResponse

\* _runs[run_id] = {"status": "training", "metrics": {}}; leaves the with
CreateRecord(p) ==
    /\ pc[p] = "L64"
    /\ _runs' = Put(_runs, run_id[p], TrainingRecord)
    /\ _lock' = Unlocked
    /\ pc' = [pc EXCEPT ![p] = "L86"]
    /\ UNCHANGED <<_current_run, req, run_id, response, jobVars, fileVars>>
    /\ reply' = NoResponse

\* thread = threading.Thread(target=_train, daemon=True); thread.start()
StartThread(p) ==
    /\ pc[p] = "L86"
    /\ tpc' = [tpc EXCEPT ![p] = "L92"]
    /\ pc' = [pc EXCEPT ![p] = "L89"]
    /\ UNCHANGED <<shared, req, run_id, response, state, exc, metrics,
                   fileVars>>
    /\ reply' = NoResponse

\* a handler that joins the thread before it answers
ReturnTrainingAfterJoin(p) ==
    /\ pc[p] = "L89"
    /\ tpc[p] = "exited"
    /\ response' = [response EXCEPT
                      ![p] = [op |-> "train", status_code |-> 200,
                              body |-> [run_id |-> run_id[p],
                                        status |-> "training"]]]
    /\ pc' = [pc EXCEPT ![p] = "returned"]
    /\ UNCHANGED <<shared, req, run_id, jobVars, fileVars>>
    /\ reply' = NoResponse

\* return {"run_id": run_id, "status": "training"}
ReturnTraining(p) ==
    /\ pc[p] = "L89"
    /\ response' = [response EXCEPT
                      ![p] = [op |-> "train", status_code |-> 200,
                              body |-> [run_id |-> run_id[p],
                                        status |-> "training"]]]
    /\ pc' = [pc EXCEPT ![p] = "returned"]
    /\ UNCHANGED <<shared, req, run_id, jobVars, fileVars>>
    /\ reply' = NoResponse

(* ---- the background thread: _train and run_training ------------------- *)
\* os.makedirs(output_dir) makes the directory of this run, which holds no
\* metrics.json yet; json.dump({"status": "training"}, status.json)
WriteInitialStatus(p) ==
    /\ tpc[p] = "L92"
    /\ status_file' = [exists |-> TRUE, output_dir |-> req[p].output_dir,
                       status |-> "training"]
    /\ metrics_file' = NoFile
    /\ tpc' = [tpc EXCEPT ![p] = "L103"]
    /\ UNCHANGED <<shared, handlerVars, state, exc, metrics>>
    /\ reply' = NoResponse

\* from_pretrained, get_peft_model, load_dataset_from_jsonl, the arguments,
\* MetricsCallback(...), SFTTrainer(...); trainer.train() begins and the
\* trainer fixes max_steps
SetUpTrainer(p, max_steps) ==
    /\ tpc[p] = "L103"
    /\ state' = [state EXCEPT
                   ![p] = [global_step |-> 0, max_steps |-> max_steps]]
    /\ tpc' = [tpc EXCEPT ![p] = "L154"]
    /\ UNCHANGED <<shared, handlerVars, exc, metrics, fileVars>>
    /\ reply' = NoResponse

\* inside trainer.train(): one optimisation step
TrainStep(p) ==
    /\ tpc[p] = "L154"
    /\ state[p].global_step < state[p].max_steps
    /\ state' = [state EXCEPT ![p].global_step = @ + 1]
    /\ UNCHANGED <<shared, handlerVars, tpc, exc, metrics, fileVars>>
    /\ reply' = NoResponse

\* the snapshot MetricsCallback.on_log dumps (duration, a wall-clock reading,
\* is left out)
LogMetrics(st, logs) ==
    [train_loss |-> GetLoss(logs),
     eval_loss |-> IF "eval_loss" \in DOMAIN logs THEN logs.eval_loss ELSE 0,
     progress |-> Progress(st.global_step, st.max_steps),
     step |-> st.global_step,
     max_steps |-> st.max_steps]

\* inside trainer.train(): the trainer calls MetricsCallback.on_log
OnLog(p, logs_is_none, logs) ==
    /\ tpc[p] = "L154"
    /\ metrics_file' = IF logs_is_none THEN metrics_file
                       ELSE [exists |-> TRUE,
                             metrics |-> LogMetrics(state[p], logs)]
    /\ UNCHANGED <<shared, handlerVars, jobVars, status_file>>
    /\ reply' = NoResponse

\* trainer.train() ends: MetricsCallback.on_train_end writes "done"
OnTrainEnd(p) ==
    /\ tpc[p] = "L154"
    /\ status_file' = [exists |-> TRUE, output_dir |-> req[p].output_dir,
                       status |-> "done"]
    /\ tpc' = [tpc EXCEPT ![p] = "L157"]
    /\ UNCHANGED <<shared, handlerVars, state, exc, metrics, metrics_file>>
    /\ reply' = NoResponse

\* the final metrics of run_training (duration left out)
FinalMetrics(training_loss, samples) ==
    [train_loss |-> training_loss, samples_used |-> samples,
     progress |-> 10000]

\* model.save_pretrained(...); tokenizer.save_pretrained(...);
\* metrics = {...}; json.dump(metrics, metrics.json)
WriteFinalMetrics(p, training_loss, samples) ==
    /\ tpc[p] = "L157"
    /\ metrics' = [metrics EXCEPT ![p] = FinalMetrics(training_loss, samples)]
    /\ metrics_file' = [exists |-> TRUE,
                        metrics |-> FinalMetrics(training_loss, samples)]
    /\ tpc' = [tpc EXCEPT ![p] = "L171"]
    /\ UNCHANGED <<shared, handlerVars, state, exc, status_file>>
    /\ reply' = NoResponse

\* json.dump({"status": "done"}, status.json); return metrics (the frame
\* of run_training, with the trainer, is gone)
WriteFinalStatus(p) ==
    /\ tpc[p] = "L171"
    /\ status_file' = [exists |-> TRUE, output_dir |-> req[p].output_dir,
                       status |-> "done"]
    /\ state' = [state EXCEPT ![p] = NoState]
    /\ tpc' = [tpc EXCEPT ![p] = "L79"]
    /\ UNCHANGED <<shared, handlerVars, exc, metrics, metrics_file>>
    /\ reply' = NoResponse

\* the lines of run_training at which a collaborator or the file system
\* can raise
RaisingLines == {"L92", "L103", "L154", "L157", "L171"}

\* a job that frees the slot as soon as run_training has raised, before it
\* writes the failed record
RaiseReleasing(p, e) ==
    /\ tpc[p] \in RaisingLines
    /\ exc' = [exc EXCEPT ![p] = e]
    /\ state' = [state EXCEPT ![p] = NoState]
    /\ tpc' = [tpc EXCEPT ![p] = "L81"]
    /\ _current_run' = None
    /\ UNCHANGED <<_lock, _runs, handlerVars, metrics, fileVars>>
    /\ reply' = NoResponse

\* run_training raises e and its frame, with the trainer, is gone; control
\* goes to "except Exception as e"
Raise(p, e) ==
    /\ tpc[p] \in RaisingLines
    /\ exc' = [exc EXCEPT ![p] = e]
    /\ state' = [state EXCEPT ![p] = NoState]
    /\ tpc' = [tpc EXCEPT ![p] = "L81"]
    /\ UNCHANGED <<shared, handlerVars, metrics, fileVars>>
    /\ reply' = NoResponse

\* a completion that updates the record in place, the status first
\* (_runs[run_id]["status"] = "done") and the metrics in a later statement
CompleteRunInPlace(p) ==
    /\ tpc[p] = "L79"
    /\ _runs' = [_runs EXCEPT ![run_id[p]].status = "done"]
    /\ tpc' = [tpc EXCEPT ![p] = "L83"]
    /\ UNCHANGED <<_current_run, _lock, handlerVars, state, exc, metrics,
                   fileVars>>
    /\ reply' = NoResponse

\* _runs[run_id] = {"status": "done", "metrics": metrics}
CompleteRun(p) ==
    /\ tpc[p] = "L79"
    /\ _runs' = Put(_runs, run_id[p], DoneRecord(metrics[p]))
    /\ tpc' = [tpc EXCEPT ![p] = "L83"]
    /\ UNCHANGED <<_current_run, _lock, handlerVars, state, exc, metrics,
                   fileVars>>
    /\ reply' = NoResponse

\* an except clause that swallows the error and leaves the record alone
FailRunSilently(p) ==
    /\ tpc[p] = "L81"
    /\ exc' = [exc EXCEPT ![p] = NoException]
    /\ tpc' = [tpc EXCEPT ![p] = "L83"]
    /\ UNCHANGED <<shared, handlerVars, state, metrics, fileVars>>
    /\ reply' = NoResponse

\* _runs[run_id] = {"status": "failed", "error": str(e)}; e is unbound when
\* the except clause ends
FailRun(p) ==
    /\ tpc[p] = "L81"
    /\ _runs' = Put(_runs, run_id[p], FailedRecord(exc[p]))
    /\ exc' = [exc EXCEPT ![p] = NoException]
    /\ tpc' = [tpc EXCEPT ![p] = "L83"]
    /\ UNCHANGED <<_current_run, _lock, handlerVars, state, metrics,
                   fileVars>>
    /\ reply' = NoResponse

\* finally: with _lock:
AcquireRelease(p) ==
    /\ tpc[p] = "L83"
    /\ CanAcquire
    /\ _lock' = Job(p)
    /\ tpc' = [tpc EXCEPT ![p] = "L84"]
    /\ UNCHANGED <<_current_run, _runs, handlerVars, state, exc, metrics,
                   fileVars>>
    /\ reply' = NoResponse

\* a release that also evicts the record of the finished run
ReleaseSlotEvicting(p) ==
    /\ tpc[p] = "L84"
    /\ _current_run' = None
    /\ _runs' = [r \in DOMAIN _runs \ {run_id[p]} |-> _runs[r]]
    /\ _lock' = Unlocked
    /\ tpc' = [tpc EXCEPT ![p] = "exited"]
    /\ metrics' = [metrics EXCEPT ![p] = << >>]
    /\ UNCHANGED <<handlerVars, state, exc, fileVars>>
    /\ reply' = NoResponse

\* a release that sits at the end of the try body instead of in finally:
\* it is skipped when run_training raised
ReleaseSlotOnSuccess(p) ==
    /\ tpc[p] = "L84"
    /\ _current_run' = IF _runs[run_id[p]].status = "failed"
                       THEN _current_run ELSE None
    /\ _lock' = Unlocked
    /\ tpc' = [tpc EXCEPT ![p] = "exited"]
    /\ metrics' = [metrics EXCEPT ![p] = << >>]
    /\ UNCHANGED <<_runs, handlerVars, state, exc, fileVars>>
    /\ reply' = NoResponse

\* _current_run = None; leaves the with; the thread ends and its locals
\* are gone
ReleaseSlot(p) ==
    /\ tpc[p] = "L84"
    /\ _current_run' = None
    /\ _lock' = Unlocked
    /\ tpc' = [tpc EXCEPT ![p] = "exited"]
    /\ metrics' = [metrics EXCEPT ![p] = << >>]
    /\ UNCHANGED <<_runs, handlerVars, state, exc, fileVars>>
    /\ reply' = NoResponse

(* ---- GET /status/{run_id}: get_status --------------------------------- *)
\* what get_status answers in the current state
StatusResponse(r) ==
    IF r \notin DOMAIN _runs
    THEN [op |-> "status", run_id |-> r, status_code |-> 404,
          detail |-> "Run " \o r \o " not found"]
    ELSE [op |-> "status", run_id |-> r, status_code |-> 200,
          body |-> _runs[r]]

\* a lookup that creates the record it does not find
\* (_runs.setdefault(run_id, {...}))
GetStatusSetDefault(r) ==
    /\ reply = NoResponse
    /\ _runs' = IF r \in DOMAIN _runs THEN _runs
                ELSE Put(_runs, r, [status |-> "training", metrics |-> << >>])
    /\ reply' = [op |-> "status", run_id |-> r, status_code |-> 200,
                 body |-> _runs'[r]]
    /\ UNCHANGED <<_current_run, _lock, handlerVars, jobVars, fileVars>>

GetStatus(r) ==
    /\ reply = NoResponse
    /\ reply' = StatusResponse(r)
    /\ UNCHANGED <<shared, handlerVars, jobVars, fileVars>>

(* ---- POST /merge: merge_adapter --------------------------------------- *)
\* a merge that is tracked like a run: its failure goes to the registry
MergeAdapterTracked(raised, e) ==
    /\ reply = NoResponse
    /\ reply' = IF raised
                THEN [op |-> "merge", status_code |-> 500, detail |-> Str(e)]
                ELSE [op |-> "merge", status_code |-> 200,
                      body |-> [status |-> "ok", output_path |-> "merged"]]
    /\ _runs' = IF raised
                THEN Put(_runs, "merge",
                         [status |-> "failed", error |-> Str(e)])
                ELSE _runs
    /\ UNCHANGED <<_current_run, _lock, handlerVars, jobVars, fileVars>>

\* the collaborators return (raised = FALSE) or raise e
MergeAdapter(raised, e) ==
    /\ reply = NoResponse
    /\ reply' = IF raised
                THEN [op |-> "merge", status_code |-> 500, detail |-> Str(e)]
                ELSE [op |-> "merge", status_code |-> 200,
                      body |-> [status |-> "ok", output_path |-> "merged"]]
    /\ UNCHANGED <<shared, handlerVars, jobVars, fileVars>>

(* ---- POST /convert: convert_to_gguf ----------------------------------- *)
\* search_paths, in order
SearchPaths == <<"~/.local/share/tanrenai/bin/convert_hf_to_gguf.py",
                 "/usr/local/bin/convert_hf_to_gguf.py",
                 "convert_hf_to_gguf.py">>

\* a search that lets the last existing candidate win (no break)
ConvertScriptLast(existing) ==
    IF existing = {} THEN 0
    ELSE CHOOSE i \in existing : \A j \in existing : i >= j

\* for p in search_paths: if p.exists(): convert_script = str(p); break
\* (existing: the indexes of the candidates that exist; 0 stands for None)
ConvertScript(existing) ==
    IF existing = {} THEN 0
    ELSE CHOOSE i \in existing : \A j \in existing : i <= j

ToolNotFound ==
    "convert_hf_to_gguf.py not found. Place it in ~/.local/share/tanrenai/bin/"

\* outcome of subprocess.run(cmd, ..., timeout=600)
SubprocessOutcomes == {"exit 0", "exit 1", "timeout"}

\* a handler that does not look at result.returncode
ConvertResponseUnchecked(existing, outcome) ==
    LET script == ConvertScript(existing) IN
    IF script = 0
    THEN [op |-> "convert", status_code |-> 500, detail |-> ToolNotFound,
          script |-> None, spawned |-> FALSE]
    ELSE IF outcome = "timeout"
    THEN [op |-> "convert", status_code |-> 500,
          detail |-> "Command timed out after 600 seconds",
          script |-> SearchPaths[script], spawned |-> TRUE]
    ELSE [op |-> "convert", status_code |-> 200,
          body |-> [status |-> "ok", output_path |-> "model.gguf"],
          script |-> SearchPaths[script], spawned |-> TRUE]

ConvertResponse(existing, outcome) ==
    LET script == ConvertScript(existing) IN
    IF script = 0
    THEN [op |-> "convert", status_code |-> 500, detail |-> ToolNotFound,
          script |-> None, spawned |-> FALSE]
    ELSE IF outcome = "timeout"
    THEN [op |-> "convert", status_code |-> 500,
          detail |-> "Command timed out after 600 seconds",
          script |-> SearchPaths[script], spawned |-> TRUE]
    ELSE IF outcome # "exit 0"
    THEN [op |-> "convert", status_code |-> 500,
          detail |-> "Conversion failed: " \o "stderr of the tool",
          script |-> SearchPaths[script], spawned |-> TRUE]
    ELSE [op |-> "convert", status_code |-> 200,
          body |-> [status |-> "ok", output_path |-> "model.gguf"],
          script |-> SearchPaths[script], spawned |-> TRUE]

ConvertToGguf(existing, outcome) ==
    /\ reply = NoResponse
    /\ reply' = ConvertResponse(existing, outcome)
    /\ UNCHANGED <<shared, handlerVars, jobVars, fileVars>>

\* run ids a client asks the status of: the supplied one, a generated one
\* and one that no request ever uses
QueryIds == SuppliedIds \cup {Uuid(1), "unknown"}

\* the steps of the start_training handlers and of the _train threads
NextTrain ==
    \/ \E p \in Reqs, rid \in RunIdInputs : AcquireAdmission(p, rid)
    \/ \E p \in Reqs : RejectConflict(p)
    \/ \E p \in Reqs : PassCheck(p)
    \/ \E p \in Reqs : AdmitRun(p)
    \/ \E p \in Reqs : CreateRecord(p)
    \/ \E p \in Reqs : StartThread(p)
    \/ \E p \in Reqs : ReturnTraining(p)
    \/ \E p \in Reqs : WriteInitialStatus(p)
    \/ \E p \in Reqs, max_steps \in {0, MaxSteps} : SetUpTrainer(p, max_steps)
    \/ \E p \in Reqs : TrainStep(p)
    \/ \E p \in Reqs, logs_is_none \in BOOLEAN, logs \in LogPayloads :
          OnLog(p, logs_is_none, logs)
    \/ \E p \in Reqs : OnTrainEnd(p)
    \/ \E p \in Reqs, training_loss \in Losses, samples \in SampleCounts :
          WriteFinalMetrics(p, training_loss, samples)
    \/ \E p \in Reqs : WriteFinalStatus(p)
    \/ \E p \in Reqs, e \in Exceptions : Raise(p, e)
    \/ \E p \in Reqs : CompleteRun(p)
    \/ \E p \in Reqs : FailRun(p)
    \/ \E p \in Reqs : AcquireRelease(p)
    \/ \E p \in Reqs : ReleaseSlot(p)

\* the steps of the handlers of GET /status, POST /merge and POST /convert
NextSync ==
    \/ \E r \in QueryIds : GetStatus(r)
    \/ \E raised \in BOOLEAN, e \in Exceptions : MergeAdapter(raised, e)
    \/ \E existing \in SUBSET (1..3), outcome \in SubprocessOutcomes :
          ConvertToGguf(existing, outcome)

Next == NextTrain \/ NextSync

Spec == Init /\ [][Next]_vars

\* the scheduler runs every thread that can take a step: a handler inside
\* its critical section and a _train thread whose run_training call has
\* ended go on; a request may never arrive and the collaborator itself may
\* run forever
Fairness ==
    \A p \in Reqs :
        /\ WF_vars(RejectConflict(p))
        /\ WF_vars(PassCheck(p))
        /\ WF_vars(AdmitRun(p))
        /\ WF_vars(CreateRecord(p))
        /\ WF_vars(CompleteRun(p))
        /\ WF_vars(FailRun(p))
        /\ WF_vars(AcquireRelease(p))
        /\ WF_vars(ReleaseSlot(p))

\* the handlers and threads of POST /train alone (the other handlers write
\* nothing but their own answer), under fair scheduling
FairSpec == Init /\ [][NextTrain]_vars /\ Fairness


(* ---- the progress events of one run ----------------------------------- *)
\* the logs dicts of the progress events: with and without a "loss" entry
OnLogPayloads == {[loss |-> 8], [eval_loss |-> 7]}

\* the trainer states on_log is called with
OnLogStates ==
    {st \in [global_step : 0..LogSteps, max_steps : 0..LogSteps] :
        st.global_step <= st.max_steps}

\* request 1 has been admitted and answered and its thread is inside
\* trainer.train() (train.py:154), the trainer at any step of any length of
\* training; nothing has been logged yet
InitOnLog ==
    /\ _current_run = Uuid(1)
    /\ _lock = Unlocked
    /\ _runs = Put(<< >>, Uuid(1), TrainingRecord)
    /\ pc = [p \in Reqs |-> IF p = 1 THEN "returned" ELSE "idle"]
    /\ req = [p \in Reqs |->
                IF p = 1 THEN [run_id |-> None, output_dir |-> OutputDir(1)]
                ELSE [run_id |-> None, output_dir |-> None]]
    /\ run_id = [p \in Reqs |-> IF p = 1 THEN Uuid(1) ELSE None]
    /\ response = [p \in Reqs |->
                     IF p = 1
                     THEN [op |-> "train", status_code |-> 200,
                           body |-> [run_id |-> Uuid(1),
                                     status |-> "training"]]
                     ELSE NoResponse]
    /\ tpc = [p \in Reqs |-> IF p = 1 THEN "L154" ELSE "none"]
    /\ \E st \in OnLogStates :
          state = [p \in Reqs |-> IF p = 1 THEN st ELSE NoState]
    /\ exc = [p \in Reqs |-> NoException]
    /\ metrics = [p \in Reqs |-> << >>]
    /\ status_file = [exists |-> TRUE, output_dir |-> OutputDir(1),
                      status |-> "training"]
    /\ metrics_file = NoFile
    /\ reply = NoResponse

\* the trainer steps and calls MetricsCallback.on_log
NextOnLog ==
    \/ \E p \in Reqs : TrainStep(p)
    \/ \E p \in Reqs, logs_is_none \in BOOLEAN, logs \in OnLogPayloads :
          OnLog(p, logs_is_none, logs)

SpecOnLog == InitOnLog /\ [][NextOnLog]_vars

(* ---- convert requests beside one run ---------------------------------- *)
\* convert_to_gguf names no global, so what it answers depends on its
\* inputs alone: the candidates that exist and what the subprocess does;
\* here the requests are served while the thread of request 1 is inside
\* trainer.train()
NextConvert ==
    \/ NextOnLog
    \/ \E existing \in SUBSET (1..3), outcome \in SubprocessOutcomes :
          ConvertToGguf(existing, outcome)

SpecConvert == InitOnLog /\ [][NextConvert]_vars

(* ---- claims ----------------------------------------------------------- *)
\* request p holds the slot: it has passed line 63 and its _train thread has
\* not yet released the slot
Active(p) == pc[p] \in {"L64", "L86", "L89", "returned"} /\ tpc[p] # "exited"

\* the _train thread of request p is running
Alive(p) == tpc[p] \notin {"none", "exited"}

\* C1: single-flight.  In every state at most one request holds the slot
\* and at most one _train thread is alive, _current_run names the run of
\* the request that holds the slot, and every registry record with status
\* "training" is the record of _current_run (so there is at most one).
C1_SingleFlight ==
    /\ \A p, q \in Reqs : Active(p) /\ Active(q) => p = q
    /\ \A p, q \in Reqs : Alive(p) /\ Alive(q) => p = q
    /\ \A p \in Reqs : Active(p) => _current_run = run_id[p]
    /\ \A r \in DOMAIN _runs :
          _runs[r].status = "training" => r = _current_run
    /\ Cardinality({r \in DOMAIN _runs : _runs[r].status = "training"}) <= 1

\* a race: one request holds the slot while another one, which asked for
\* the lock after it, has been answered with the conflict
C1_Witness ==
    \E p, q \in Reqs :
        /\ p # q
        /\ Active(p) /\ Alive(p)
        /\ run_id[p] \in DOMAIN _runs /\ _runs[run_id[p]].status = "training"
        /\ pc[q] = "rejected" /\ response[q].status_code = 409

\* the record of the run that holds the slot is terminal: a status query
\* for that run answers "done" or "failed"
SlotRunEnded ==
    /\ _current_run \in DOMAIN _runs
    /\ _runs[_current_run].status \in {"done", "failed"}

\* request q arrives (its handler gets the lock)
Arrives(q) == pc[q] = "idle" /\ pc'[q] = "L57"

\* C2: re-admission after termination.  A start_training request that
\* arrives when the record of the last admitted run already shows "done" or
\* "failed" finds the slot free (so it is admitted, not rejected).
C2_Readmission ==
    [][\A q \in Reqs : Arrives(q) /\ SlotRunEnded => _current_run = None]_vars

\* C3: unconditional slot release.  Once the run_training call of an
\* admitted run has ended, by returning (line 79 is next) or by raising
\* (line 81 is next), _current_run is eventually None; and whenever no
\* request holds the slot, the slot is free.
C3_SlotReleased ==
    /\ \A p \in Reqs : (tpc[p] \in {"L79", "L81"}) ~> (_current_run = None)
    /\ []((\A p \in Reqs : ~Active(p) /\ pc[p] # "L62") =>
             _current_run = None)

\* a run failed, its thread is gone and the slot is free again
C3_Witness ==
    \E p \in Reqs :
        /\ tpc[p] = "exited"
        /\ _runs[run_id[p]].status = "failed"
        /\ _current_run = None

\* what POST /train answers to an admitted request
TrainingResponse(p) ==
    [op |-> "train", status_code |-> 200,
     body |-> [run_id |-> run_id[p], status |-> "training"]]

C5_ConflictNoSideEffects ==
    /\ [][\A p \in Reqs :
            /\ (pc[p] = "L57" /\ _current_run # None /\ pc'[p] # pc[p]) =>
                  pc'[p] = "rejected"
            /\ (pc[p] = "L57" /\ pc'[p] = "rejected") =>
                  /\ response'[p].status_code = 409
                  /\ response'[p].detail =
                        "Training already in progress: " \o _current_run
                  /\ _current_run # None
                  /\ _current_run' = _current_run
                  /\ _runs' = _runs
                  /\ tpc' = tpc]_vars
    /\ [](\A p \in Reqs :
            pc[p] = "rejected" =>
                /\ run_id[p] = None
                /\ tpc[p] = "none"
                /\ req[p].run_id \in DOMAIN _runs =>
                      \E q \in Reqs : q # p /\ run_id[q] = req[p].run_id)

\* a request that asked for run_id "a" was rejected with a message naming
\* the active run, and the registry has no record "a"
C5_Witness ==
    \E p, q \in Reqs :
        /\ pc[q] = "rejected" /\ req[q].run_id = "a"
        /\ Active(p)
        /\ response[q].detail = "Training already in progress: " \o run_id[p]
        /\ "a" \notin DOMAIN _runs

\* C6: live progress through status polling.  While the _train thread of a
\* run is inside trainer.train() and on_log has written a snapshot for an
\* event with max_steps > 0, a status query for that run answers the metrics
\* of that snapshot (progress = step / max_steps).
C6_LiveProgress ==
    \A p \in Reqs :
        (/\ tpc[p] = "L154"
         /\ metrics_file.exists
         /\ metrics_file.metrics.max_steps > 0
         /\ reply.op = "status"
         /\ reply.run_id = run_id[p]) =>
            /\ reply.status_code = 200
            /\ reply.body.status = "training"
            /\ reply.body.metrics = metrics_file.metrics

\* the progress value of the snapshot in metrics.json
ReportedProgress == metrics_file.metrics.progress

\* within one run the reported progress never decreases (metrics.json of a
\* new run does not exist until that run writes it)
ProgressNonDecreasing ==
    [][(metrics_file.exists /\ metrics_file'.exists) =>
           ReportedProgress' >= ReportedProgress]_vars

\* progress is 1.0 when the status becomes "done": in the record and in the
\* snapshot, while the thread that wrote "done" still holds the slot
DoneAtFullProgress ==
    /\ \A r \in DOMAIN _runs :
          _runs[r].status = "done" => _runs[r].metrics.progress = 10000
    /\ \A p \in Reqs :
          (tpc[p] \in {"L83", "L84"} /\ _runs[run_id[p]].status = "done") =>
              metrics_file.exists /\ ReportedProgress = 10000

\* while the record of a run says "training", the reported progress is
\* below 1.0
FullProgressOnlyAtDone ==
    \A p \in Reqs :
        (/\ Alive(p)
         /\ _runs[run_id[p]].status = "training"
         /\ metrics_file.exists) =>
            ReportedProgress < 10000

\* C7 as stated: progress monotonicity, 1.0 at done, and 1.0 never reported
\* while the status is still "training".
C7_ProgressOnlyAtDone ==
    ProgressNonDecreasing /\ []DoneAtFullProgress /\ []FullProgressOnlyAtDone

\* C7 as amended: within a single run the reported progress values are
\* non-decreasing and progress is 1.0 when the status becomes "done"; 1.0
\* can already be reported while the status is still "training".
C7_ProgressMonotone == ProgressNonDecreasing /\ []DoneAtFullProgress

\* the log event of the last step has reported 1.0 while the record of the
\* run still says "training"
C7_Witness ==
    \E p \in Reqs :
        /\ tpc[p] = "L154"
        /\ state[p].max_steps > 0
        /\ state[p].global_step = state[p].max_steps
        /\ metrics_file.exists
        /\ "step" \in DOMAIN metrics_file.metrics
        /\ ReportedProgress = 10000
        /\ _runs[run_id[p]].status = "training"

\* C8: lifecycle is forward-only and run ids are unique per run.  No two
\* admitted requests have the same run_id; the status of a record moves only
\* from "training" to "done" or "failed"; a record that is "done" or
\* "failed" never changes again.
C8_ForwardOnlyUnique ==
    /\ [](\A p, q \in Reqs :
            (p # q /\ run_id[p] # None /\ run_id[q] # None) =>
                run_id[p] # run_id[q])
    /\ [][\A r \in DOMAIN _runs :
            /\ r \in DOMAIN _runs'
            /\ _runs[r].status \in {"done", "failed"} => _runs'[r] = _runs[r]
            /\ _runs'[r].status # _runs[r].status =>
                  /\ _runs[r].status = "training"
                  /\ _runs'[r].status \in {"done", "failed"}]_vars

\* request p has been admitted: it has left the critical section with its
\* record created
Admitted(p) == pc[p] \in {"L86", "L89", "returned"}

\* C9: no eviction.  The run_id of an admitted request is a key of _runs in
\* every later state, a status query for it answers 200 with its record,
\* and no step removes a key from _runs.
C9_NoEviction ==
    /\ [](\A p \in Reqs :
            Admitted(p) =>
                /\ run_id[p] \in DOMAIN _runs
                /\ StatusResponse(run_id[p]).status_code = 200
                /\ (reply.op = "status" /\ reply.run_id = run_id[p]) =>
                      reply.status_code = 200 /\ reply.body = _runs[run_id[p]])
    /\ [][DOMAIN _runs \subseteq DOMAIN _runs']_vars

\* a status query for a run that failed and whose thread is gone answers
\* its record, while a later run is in progress
C9_Witness ==
    \E p, q \in Reqs :
        /\ p # q
        /\ tpc[p] = "exited" /\ Alive(q)
        /\ reply.op = "status" /\ reply.run_id = run_id[p]
        /\ reply.status_code = 200 /\ reply.body.status = "failed"

\* C10: unknown-run lookup.  A status query for a run_id under which no
\* request was admitted answers 404 naming the run_id; a status query, for
\* a known or an unknown run_id, leaves _current_run, _lock and _runs as
\* they are.
C10_UnknownRun ==
    /\ []((reply.op = "status" /\ \A p \in Reqs : run_id[p] # reply.run_id) =>
             /\ reply.status_code = 404
             /\ reply.detail = "Run " \o reply.run_id \o " not found")
    /\ [][reply'.op = "status" =>
             /\ _current_run' = _current_run
             /\ _lock' = _lock
             /\ _runs' = _runs]_vars

\* while a run is in progress, a status query for a run_id that was never
\* admitted has answered 404
C10_Witness ==
    /\ reply.op = "status" /\ reply.run_id = "unknown"
    /\ reply.status_code = 404
    /\ \E p \in Reqs : Alive(p) /\ _runs[run_id[p]].status = "training"

\* status.json in the output_dir of request p has been written
HasStatusFile(p) ==
    status_file.exists /\ status_file.output_dir = req[p].output_dir

\* C11: persisted status mirrors the registry.  When the _train thread of a
\* run has written the terminal record (and still holds the slot), the
\* status file in the output_dir of the run agrees with it: the file says "done" when the record is
\* "done", and says neither "training" nor "done" when the record is
\* "failed".
C11_StatusFileMirrors ==
    \A p \in Reqs :
        (tpc[p] \in {"L83", "L84"} /\ HasStatusFile(p)) =>
            /\ _runs[run_id[p]].status = "done" =>
                  status_file.status = "done"
            /\ _runs[run_id[p]].status = "failed" =>
                  status_file.status \notin {"training", "done"}

\* C12: non-blocking start.  A handler that has started the thread can
\* return whatever the thread is doing; the step in which it returns answers
\* {run_id, status "training"} and leaves the thread where it is; a thread
\* whose handler has returned is not stopped by that (it can take a step
\* whenever it does not wait for the lock).
C12_NonBlockingStart ==
    /\ [](\A p \in Reqs : pc[p] = "L89" => ENABLED ReturnTraining(p))
    /\ [][\A p \in Reqs :
            (pc[p] = "L89" /\ pc'[p] = "returned") =>
                /\ response'[p] = TrainingResponse(p)
                /\ tpc' = tpc /\ shared' = shared]_vars
    /\ [](\A p \in Reqs :
            (pc[p] = "returned" /\ Alive(p) /\ tpc[p] # "L83") =>
                ENABLED (\/ WriteInitialStatus(p)
                         \/ SetUpTrainer(p, 0)
                         \/ OnTrainEnd(p)
                         \/ WriteFinalMetrics(p, 8, 3)
                         \/ WriteFinalStatus(p)
                         \/ CompleteRun(p)
                         \/ FailRun(p)
                         \/ ReleaseSlot(p)))

\* the request has been answered and a status query issued after the answer
\* finds the run "training", its thread inside trainer.train()
C12_Witness ==
    \E p \in Reqs :
        /\ pc[p] = "returned" /\ response[p] = TrainingResponse(p)
        /\ tpc[p] = "L154"
        /\ reply.op = "status" /\ reply.run_id = run_id[p]
        /\ reply.status_code = 200 /\ reply.body.status = "training"

\* the candidate sets and the outcomes of the tool a convert request meets
CandidateSets == SUBSET (1..3)

\* C13: convert tool discovery.  A convert request served with the set
\* "existing" of existing candidates runs the first candidate of the list
\* that exists, whichever later candidates exist too; when no candidate
\* exists it answers the tool-not-found failure (500) and spawns no
\* subprocess, and a subprocess is spawned only with a script that exists.
C13_FirstExistingWins ==
    [][reply'.op = "convert" =>
       \A existing \in CandidateSets, outcome \in SubprocessOutcomes :
         ConvertToGguf(existing, outcome) =>
            /\ \A i \in existing :
                  (\A j \in 1..(i - 1) : j \notin existing) =>
                      reply'.script = SearchPaths[i] /\ reply'.spawned
            /\ existing = {} =>
                  /\ reply'.status_code = 500
                  /\ reply'.detail = ToolNotFound
                  /\ reply'.script = None
                  /\ ~reply'.spawned]_vars

\* the first candidate was missing and the second one has been run
C13_Witness ==
    /\ reply.op = "convert"
    /\ reply.spawned
    /\ reply.script = "/usr/local/bin/convert_hf_to_gguf.py"

\* C14: convert outcome mapping.  A convert request answers 200 with
\* {status "ok", output_path} exactly when a candidate exists and the
\* subprocess exits with code 0 within the timeout; a non-zero exit gives
\* 500 with the error output of the subprocess, a timeout gives 500; every
\* outcome is answered with 200 or 500.
C14_ConvertOutcome ==
    [][reply'.op = "convert" =>
       \A existing \in CandidateSets, outcome \in SubprocessOutcomes :
         ConvertToGguf(existing, outcome) =>
            /\ reply'.status_code \in {200, 500}
            /\ reply'.status_code = 200 <=>
                  (existing # {} /\ outcome = "exit 0")
            /\ reply'.status_code = 200 =>
                  reply'.body = [status |-> "ok", output_path |-> "model.gguf"]
            /\ (existing # {} /\ outcome = "exit 1") =>
                  /\ reply'.status_code = 500
                  /\ reply'.detail = "Conversion failed: stderr of the tool"
            /\ (existing # {} /\ outcome = "timeout") =>
                  reply'.status_code = 500]_vars

\* the tool was found and run, it exited with a non-zero code, and the
\* request was answered 500 with the error output
C14_Witness ==
    /\ reply.op = "convert"
    /\ reply.spawned
    /\ reply.status_code = 500
    /\ reply.detail = "Conversion failed: stderr of the tool"

\* the three shapes of a registry record
WellFormed(info) ==
    \/ /\ DOMAIN info = {"status", "metrics"}
       /\ info.status = "training"
       /\ DOMAIN info.metrics = {}
    \/ /\ DOMAIN info = {"status", "metrics"}
       /\ info.status = "done"
       /\ "progress" \in DOMAIN info.metrics
       /\ info.metrics.progress = 10000
       /\ DOMAIN info.metrics = {"train_loss", "samples_used", "progress"}
    \/ /\ DOMAIN info = {"status", "error"}
       /\ info.status = "failed"
       /\ info.error \in {"'messages'", "CUDA out of memory"}

\* C15: well-formed records under concurrent reads.  In every state every
\* record of the registry, and the record every status query has answered,
\* is "training" with (empty) metrics and no error, or "done" with the final
\* metrics (progress 1.0) and no error, or "failed" with the text of the
\* error and no metrics; so an error is present exactly when the status is
\* "failed".
C15_WellFormedRecords ==
    /\ \A r \in DOMAIN _runs :
          /\ WellFormed(_runs[r])
          /\ "error" \in DOMAIN _runs[r] <=> _runs[r].status = "failed"
    /\ (reply.op = "status" /\ reply.status_code = 200) =>
          /\ WellFormed(reply.body)
          /\ "error" \in DOMAIN reply.body <=> reply.body.status = "failed"

\* a status query served right after the completion write of the thread,
\* which still holds the slot, has answered "done" with the final metrics
C15_Witness ==
    \E p \in Reqs :
        /\ tpc[p] = "L83"
        /\ reply.op = "status" /\ reply.run_id = run_id[p]
        /\ reply.status_code = 200
        /\ reply.body.status = "done"
        /\ reply.body.metrics.progress = 10000

\* what a progress event with a log payload records is to the point:
\* progress * max_steps = step (progress in units of 1e-4)
ProgressExact ==
    [][\A p \in Reqs, logs \in OnLogPayloads :
         (OnLog(p, FALSE, logs) /\ state[p].max_steps > 0) =>
            metrics_file'.metrics.progress * state[p].max_steps =
               10000 * state[p].global_step]_vars

\* what a progress event with a log payload records is step / max_steps
\* rounded to four decimals: it is off by at most half of 1e-4
ProgressRounded ==
    [][\A p \in Reqs, logs \in OnLogPayloads :
         (OnLog(p, FALSE, logs) /\ state[p].max_steps > 0) =>
            LET d == metrics_file'.metrics.progress * state[p].max_steps
                        - 10000 * state[p].global_step
            IN  2 * d <= state[p].max_steps /\ -2 * d <= state[p].max_steps]_vars

\* progress is 0 when max_steps is 0, it lies in [0, 1] for
\* 0 <= step <= max_steps, the snapshot records the step and max_steps of
\* the event, and an event without a log payload leaves the snapshot as it
\* is
ProgressGuarded ==
    [][\A p \in Reqs, logs \in OnLogPayloads :
         /\ OnLog(p, FALSE, logs) =>
               /\ metrics_file'.exists
               /\ metrics_file'.metrics.step = state[p].global_step
               /\ metrics_file'.metrics.max_steps = state[p].max_steps
               /\ state[p].max_steps = 0 =>
                     metrics_file'.metrics.progress = 0
               /\ metrics_file'.metrics.progress >= 0
               /\ metrics_file'.metrics.progress <= 10000
         /\ OnLog(p, TRUE, logs) => metrics_file' = metrics_file]_vars

\* C16 as stated: the recorded progress is step / max_steps when
\* max_steps > 0 and exactly 0 when max_steps is 0; it lies in [0, 1] for
\* 0 <= step <= max_steps; an event with no log payload writes nothing.
C16_ProgressExact == ProgressExact /\ ProgressGuarded

\* C16 as amended: the recorded progress is step / max_steps rounded to
\* four decimals when max_steps > 0 and exactly 0 when max_steps is 0; it
\* lies in [0, 1] for 0 <= step <= max_steps; an event with no log payload
\* writes nothing.
C16_ProgressRounded == ProgressRounded /\ ProgressGuarded

\* the event of step 2 of 3 has recorded 0.6667
C16_Witness ==
    /\ metrics_file.exists
    /\ metrics_file.metrics.step = 2
    /\ metrics_file.metrics.max_steps = 3
    /\ metrics_file.metrics.progress = 6667

\* C17: synchronous stages are outside run tracking.  A step that serves a
\* merge or a convert request, answering success or failure, leaves the
\* slot, the lock, the registry, every start_training handler and every
\* _train thread as they are (so its failure shows in its own answer only,
\* and a start_training request can get the lock after it exactly when it
\* could before); and a merge and a convert request can be served in every
\* state, whatever the slot, the lock and the registry hold.
C17_SyncOutsideTracking ==
    /\ [][reply'.op \in {"merge", "convert"} =>
             /\ UNCHANGED <<_current_run, _lock, _runs>>
             /\ UNCHANGED <<pc, req, run_id, response>>
             /\ UNCHANGED <<tpc, state, exc, metrics>>]_vars
    /\ [](reply = NoResponse =>
             /\ ENABLED (\E raised \in BOOLEAN, e \in Exceptions :
                            MergeAdapter(raised, e))
             /\ ENABLED (\E existing \in CandidateSets,
                            outcome \in SubprocessOutcomes :
                            ConvertToGguf(existing, outcome)))

\* a merge request has failed while a training run holds the slot and a
\* start_training handler holds the lock; the record of the run still says
\* "training" and the registry has no other record
C17_Witness ==
    \E p, q \in Reqs :
        /\ reply.op = "merge" /\ reply.status_code = 500
        /\ Alive(p) /\ _current_run = run_id[p]
        /\ _runs[run_id[p]].status = "training"
        /\ DOMAIN _runs = {run_id[p]}
        /\ _lock = Handler(q)

\* the _train thread of request p writes its terminal record
TerminalWrite(p) == tpc[p] \in {"L79", "L81"} /\ tpc'[p] = "L83"

SlotRunRecorded == _current_run # None => _current_run \in DOMAIN _runs

\* no record says "training" while the slot is free
FreeSlotNoTraining ==
    _current_run = None =>
        \A r \in DOMAIN _runs : _runs[r].status # "training"

\* a start_training handler is inside its critical section
InAdmission == \E p \in Reqs : _lock = Handler(p)

====
